---- MODULE Spec2Model ----
(***************************************************************************)
(* Model of womba's context retrieval and indexing subsystem:              *)
(*   src/ai/embedding_service.py   EmbeddingService                        *)
(*   src/ai/rag_store.py           RAGVectorStore (over a ChromaDB client) *)
(*   src/ai/context_indexer.py     ContextIndexer                          *)
(*   src/ai/rag_retriever.py       RAGRetriever                            *)
(*   src/ai/test_plan_generator.py TestPlanGenerator.generate_test_plan    *)
(*                                                                         *)
(* The ChromaDB collection and the OpenAI embeddings endpoint are external *)
(* to the repository.  They are modelled by what the calls the code makes  *)
(* on them can do: collection.add validates its arguments, rejects a batch *)
(* that repeats an id, and keeps the stored record of an id that already   *)
(* exists (it is add, not upsert); every external call may also raise.     *)
(*                                                                         *)
(* Page sizes and the length of a day are scaled down (see the bounds) so  *)
(* that multi-page inputs and day changes fit in bounded sets; every       *)
(* property is stated in terms of the named sizes, not of their values.    *)
(***************************************************************************)
EXTENDS Integers, Sequences, FiniteSets, TLC

(***************************************************************************)
(* Bounds of the model.                                                    *)
(***************************************************************************)
\* ContextIndexer page size (BATCH_SIZE = 1000 in context_indexer.py), scaled.
BATCH_SIZE == 2
\* EmbeddingService.batch_size (100 in embedding_service.py), scaled.
batch_size == 2
\* Longest documents / metadatas / ids list handed directly to add_documents.
MaxDocs == 2
\* Longest record list handed to a paged indexing operation.
MaxRecords == 3
\* Clock ticks (seconds) the model lets pass, and ticks per calendar day.
MaxTime == 2
DayLen == 2
\* Successful index_test_plan calls the model follows between two clears.
MaxPlanCalls == 2

(***************************************************************************)
(* Generic helpers.                                                        *)
(***************************************************************************)
Range(s) == {s[i] : i \in DOMAIN s}

SeqsUpTo(S, n) == UNION {[1..k -> S] : k \in 0..n}

Min(a, b) == IF a < b THEN a ELSE b

\* ceil(n / d)
CeilDiv(n, d) == (n + d - 1) \div d

None == "None"

(***************************************************************************)
(* rag_store.py: collection names.                                         *)
(***************************************************************************)
TEST_PLANS_COLLECTION == "test_plans"
CONFLUENCE_DOCS_COLLECTION == "confluence_docs"
JIRA_STORIES_COLLECTION == "jira_stories"
EXISTING_TESTS_COLLECTION == "existing_tests"

Collections ==
  {TEST_PLANS_COLLECTION, CONFLUENCE_DOCS_COLLECTION,
   JIRA_STORIES_COLLECTION, EXISTING_TESTS_COLLECTION}

VARIABLES
  store,          \* collection name -> set of stored records {id, document, metadata, embedding}
  materialised,   \* names of the collections that exist in the ChromaDB client
  latest,         \* history: collection -> id -> the record of the last successful add_documents holding that id
  now,            \* wall clock, in ticks (seconds)
  op,             \* the last operation and its arguments
  result,         \* how the last operation ended: "none", "ok" or the error it raised
  planCalls,      \* history: successful index_test_plan calls since plan memory was last cleared
  logged,         \* the failure the last operation caught and logged, "none" if none
  providerCalls,  \* embedding-provider calls made by the last operation
  addCalls,       \* the ids lists of the add_documents calls the last operation made, in order
  rpc,            \* retrieve_for_story: "idle", "gather", "returned" or "raised"
  rcall,          \* retrieve_for_story: the query text and metadata filter of the running call
  lookups,        \* retrieve_for_story: collection -> the state of its lookup coroutine
  context,        \* retrieve_for_story: the RetrievedContext returned, None before
  gen,            \* generate_test_plan: its position, flags and what failed on the way
  task,           \* the index_test_plan task generate_test_plan created
  test_cache,     \* ZephyrIntegration._test_cache: cache key -> the list cached under it
  cache_timestamp,\* ZephyrIntegration._cache_timestamp
  cached_at       \* history: cache key -> the tick at which its list was stored

retrVars == <<rpc, rcall, lookups, context>>
genVars == <<gen, task>>
zephyrVars == <<test_cache, cache_timestamp, cached_at>>

vars == <<store, materialised, latest, planCalls, now, op, result, logged, providerCalls,
          addCalls, retrVars, genVars, zephyrVars>>

(***************************************************************************)
(* embedding_service.py                                                    *)
(***************************************************************************)
\* The vector the provider returns for a text (deterministic per text).
ProviderVector(text) == <<"vec", text>>

\* [0.0] * 1536
ZeroVector == <<"zero", 1536>>

\* _embed_batch: one provider call for the whole batch, vectors in input order.
embed_batch(batch) == [j \in 1..Len(batch) |-> ProviderVector(batch[j])]

\* Mutant: a failed chunk contributes a single zero vector.
zero_vectors_single(batch) == <<ZeroVector>>

\* [[0.0] * 1536] * len(batch): what a failed chunk contributes.
zero_vectors(batch) == [j \in 1..Len(batch) |-> ZeroVector]

\* The loop of embed_texts from offset i (1-based); `failing` is the set of
\* chunk numbers whose provider call raises.
RECURSIVE embed_from(_, _, _, _)
embed_from(texts, i, failing, all_embeddings) ==
  IF i > Len(texts) THEN all_embeddings
  ELSE LET batch == SubSeq(texts, i, Min(i + batch_size - 1, Len(texts)))
           chunk == ((i - 1) \div batch_size) + 1
       IN IF chunk \in failing
          THEN embed_from(texts, i + batch_size, failing,
                          all_embeddings \o zero_vectors(batch))
          ELSE embed_from(texts, i + batch_size, failing,
                          all_embeddings \o embed_batch(batch))

embed_texts(texts, failing) ==
  IF texts = <<>> THEN <<>> ELSE embed_from(texts, 1, failing, <<>>)

\* Mutant: the provider is called at least once.
embed_calls_at_least_one(n) == IF n = 0 THEN 1 ELSE CeilDiv(n, batch_size)

\* Provider calls embed_texts makes for n texts: one per chunk, none for no text.
embed_calls(n) == CeilDiv(n, batch_size)

(***************************************************************************)
(* rag_store.py: RAGVectorStore.add_documents                              *)
(***************************************************************************)
IdsOf(coll) == {d.id : d \in coll}

HasDuplicates(ids) == \E i, j \in DOMAIN ids : i # j /\ ids[i] = ids[j]

\* `len(documents) != len(metadatas) != len(ids)` is a chained comparison:
\* (len(documents) != len(metadatas)) and (len(metadatas) != len(ids)).
LengthCheckFails(documents, metadatas, ids) ==
  Len(documents) # Len(metadatas) /\ Len(metadatas) # Len(ids)

\* ChromaDB's collection.add(embeddings, documents, metadatas, ids): raises on
\* arguments of unequal length, on an id repeated in the batch, or when the
\* storage fails; otherwise inserts the records whose id is not yet stored and
\* leaves the record of an existing id as it is.
\* Mutant: the records of the call replace the content of the collection.
collection_add_replacing(coll, embeddings, documents, metadatas, ids, fails) ==
  IF fails THEN [err |-> "StoreError", docs |-> coll]
  ELSE [err |-> "none",
        docs |-> {[id |-> ids[i], document |-> documents[i],
                   metadata |-> metadatas[i], embedding |-> embeddings[i]] :
                    i \in DOMAIN ids}]

collection_add(coll, embeddings, documents, metadatas, ids, fails) ==
  IF fails THEN [err |-> "StoreError", docs |-> coll]
  ELSE IF ~(Len(embeddings) = Len(ids) /\ Len(documents) = Len(ids)
            /\ Len(metadatas) = Len(ids))
  THEN [err |-> "ChromaValueError", docs |-> coll]
  ELSE IF HasDuplicates(ids) THEN [err |-> "DuplicateIDError", docs |-> coll]
  ELSE [err |-> "none",
        docs |-> coll \cup
                 {[id |-> ids[i], document |-> documents[i],
                   metadata |-> metadatas[i], embedding |-> embeddings[i]] :
                    i \in {k \in DOMAIN ids : ids[k] \notin IdsOf(coll)}}]

StoreFailures == {"none", "get_or_create", "add"}

\* Mutant: the empty list is not short-circuited.
no_documents_ignored(documents) == FALSE

\* `if not documents:` (warning, return)
no_documents(documents) == documents = <<>>

\* add_documents on store st with materialised collections mat.  failing: the
\* embedding chunks whose provider call raises; storeFail: the storage call
\* that raises, if any.
add_documents(st, mat, collection_name, documents, metadatas, ids, failing, storeFail) ==
  IF no_documents(documents)
  THEN [err |-> "none", store |-> st, materialised |-> mat, providerCalls |-> 0]
  ELSE IF LengthCheckFails(documents, metadatas, ids)
  THEN [err |-> "ValueError", store |-> st, materialised |-> mat, providerCalls |-> 0]
  ELSE LET embeddings == embed_texts(documents, failing)
           calls == embed_calls(Len(documents))
       IN IF storeFail = "get_or_create"
          THEN [err |-> "StoreError", store |-> st, materialised |-> mat,
                providerCalls |-> calls]
          ELSE LET r == collection_add(st[collection_name], embeddings, documents,
                                       metadatas, ids, storeFail = "add")
               IN [err |-> r.err,
                   store |-> [st EXCEPT ![collection_name] = r.docs],
                   materialised |-> mat \cup {collection_name},
                   providerCalls |-> calls]

\* Mutant: the whole database is reset.
clear_collection_resets(st, mat, collection_name, fails) ==
  IF fails \/ collection_name \notin mat
  THEN [store |-> st, materialised |-> mat]
  ELSE [store |-> [c \in DOMAIN st |-> {}], materialised |-> {}]

\* clear_collection: delete_collection, whose failure (the collection does not
\* exist, or the storage fails) is logged and swallowed.
clear_collection(st, mat, collection_name, fails) ==
  IF fails \/ collection_name \notin mat
  THEN [store |-> st, materialised |-> mat]
  ELSE [store |-> [st EXCEPT ![collection_name] = {}],
        materialised |-> mat \ {collection_name}]

(***************************************************************************)
(* History: what an upsert of the last successful call would have stored.  *)
(***************************************************************************)
RecordOfCall(documents, metadatas, embeddings, i) ==
  [document |-> documents[i], metadata |-> metadatas[i], embedding |-> embeddings[i]]

\* Position of the last occurrence of id in ids.
LastIndex(ids, id) ==
  CHOOSE i \in DOMAIN ids : ids[i] = id /\ \A j \in DOMAIN ids : ids[j] = id => j <= i

(***************************************************************************)
(* Direct use of the store: add_documents and clear_collection calls.      *)
(***************************************************************************)
DocIds == {"a", "b"}
Versions == {1, 2}
\* The collection the direct calls are made on.
StoreCollections == {JIRA_STORIES_COLLECTION}

TextOf(v) == <<"text", v>>
MetaOf(v) == [project_key |-> IF v = 1 THEN "PLAT" ELSE "OTHER"]

EmptyStore == [c \in Collections |-> {}]
NoLatest == [c \in Collections |-> [i \in {} |-> None]]

IdleLookups == [c \in Collections |-> [pc |-> "idle", failure |-> "none", raised |-> FALSE,
                         count |-> 0, queried |-> FALSE, providerCalls |-> 0, out |-> <<>>]]
IdleGen == [pc |-> "idle", use_rag |-> FALSE, grounded |-> FALSE, failed |-> {}]

\* _test_cache = {} and _cache_timestamp = None (written -1: no clock reading
\* is negative).
NoCache == [k \in {} |-> None]
NoTimestamp == -1

\* Everything but the store, as it is before any operation.
Quiet ==
  /\ latest = NoLatest
  /\ planCalls = 0
  /\ now = 0
  /\ op = [name |-> "init"]
  /\ result = "none"
  /\ logged = "none"
  /\ providerCalls = 0
  /\ addCalls = <<>>
  /\ rpc = "idle"
  /\ rcall = None
  /\ lookups = IdleLookups
  /\ context = None
  /\ gen = IdleGen
  /\ task = "none"
  /\ test_cache = NoCache
  /\ cache_timestamp = NoTimestamp
  /\ cached_at = NoCache

Init ==
  /\ store = EmptyStore
  /\ materialised = {}
  /\ Quiet

\* A successful add_documents call records, for each id it held, what it held.
LatestAfter(lt, c, documents, metadatas, ids, embeddings) ==
  [lt EXCEPT ![c] =
     [i \in (DOMAIN lt[c]) \cup Range(ids) |->
        IF i \in Range(ids)
        THEN RecordOfCall(documents, metadatas, embeddings, LastIndex(ids, i))
        ELSE lt[c][i]]]

AddDocuments(c, nd, nm, ids, v, failing, storeFail) ==
  LET documents == [i \in 1..nd |-> TextOf(v)]
      metadatas == [i \in 1..nm |-> MetaOf(v)]
  IN \E r \in {add_documents(store, materialised, c, documents, metadatas, ids,
                              failing, storeFail)} :
     /\ store' = r.store
     /\ materialised' = r.materialised
     /\ latest' = IF r.err = "none" /\ documents # <<>>
                  THEN LatestAfter(latest, c, documents, metadatas, ids,
                                   embed_texts(documents, failing))
                  ELSE latest
     /\ op' = [name |-> "add_documents", lens |-> <<nd, nm, Len(ids)>>]
     /\ result' = IF r.err = "none" THEN "ok" ELSE r.err
     /\ logged' = "none"
     /\ providerCalls' = r.providerCalls
     /\ addCalls' = <<>>
     /\ UNCHANGED <<now, zephyrVars, planCalls, retrVars, genVars>>

ClearCollection(c, fails) ==
  \E r \in {clear_collection(store, materialised, c, fails)} :
     /\ store' = r.store
     /\ materialised' = r.materialised
     /\ latest' = IF fails \/ c \notin materialised THEN latest
                  ELSE [latest EXCEPT ![c] = [i \in {} |-> None]]
     /\ op' = [name |-> "clear_collection"]
     /\ result' = "ok"
     /\ logged' = IF fails \/ c \notin materialised THEN "ClearFailed" ELSE "none"
     /\ planCalls' = IF r.store[TEST_PLANS_COLLECTION] = {} THEN 0 ELSE planCalls
     /\ providerCalls' = 0
     /\ addCalls' = <<>>
     /\ UNCHANGED <<now, zephyrVars, retrVars, genVars>>

\* The argument lists of a direct add_documents call: either the three lists
\* have the length of ids, or the three lengths are chosen freely.
WellFormedCall(c, ids, v, failing, storeFail) ==
  AddDocuments(c, Len(ids), Len(ids), ids, v, failing, storeFail)

FirstIds(n) == SubSeq(<<"a", "b", "a", "b">>, 1, n)

MismatchedCall(c, nd, nm, ni) ==
  /\ ~(nd = nm /\ nm = ni)
  /\ AddDocuments(c, nd, nm, FirstIds(ni), 1, {}, "none")

StoreNext ==
  \/ \E c \in StoreCollections, ids \in SeqsUpTo(DocIds, MaxDocs), v \in Versions,
        failing \in SUBSET (1..embed_calls(MaxDocs)), storeFail \in StoreFailures :
       WellFormedCall(c, ids, v, failing, storeFail)
  \/ \E c \in StoreCollections, nd \in 0..MaxDocs, nm \in 0..MaxDocs, ni \in 0..MaxDocs :
       MismatchedCall(c, nd, nm, ni)
  \/ \E c \in StoreCollections, fails \in BOOLEAN : ClearCollection(c, fails)

StoreSpec == Init /\ [][StoreNext]_vars

(***************************************************************************)
(* C3: add_documents called with documents, metadatas and ids that are not *)
(* all three of the same length fails with an error, and it has made no    *)
(* embedding-provider call when it fails.                                  *)
(***************************************************************************)
C3_MismatchFailsBeforeProvider ==
  (op.name = "add_documents" /\ ~(op.lens[1] = op.lens[2] /\ op.lens[2] = op.lens[3]))
    => (result \notin {"ok", "none"} /\ providerCalls = 0)

(***************************************************************************)
(* C6: a collection holds at most one document per id, and the document    *)
(* stored under an id carries the text, metadata and embedding of the most *)
(* recent successful add_documents call that contained the id.             *)
(***************************************************************************)
C6_LatestCallWins ==
  \A c \in Collections :
    /\ \A d1, d2 \in store[c] : d1.id = d2.id => d1 = d2
    /\ \A d \in store[c] :
         /\ d.id \in DOMAIN latest[c]
         /\ latest[c][d.id] = [document |-> d.document, metadata |-> d.metadata,
                               embedding |-> d.embedding]

(***************************************************************************)
(* context_indexer.py: ContextIndexer                                      *)
(***************************************************************************)
\* datetime.now().strftime('%Y%m%d'): the calendar day of tick t.
Day(t) == t \div DayLen

\* datetime.now().strftime('%Y%m%d_%H%M%S') and .isoformat(): the tick itself
\* (the model's clock has the resolution of a second).
Second(t) == t

\* story.key.split('-')[0]
KeyProject(key) == key.project

Story(n) == [key |-> [project |-> "PLAT", num |-> n], summary |-> "summary"]
Test(n) == [key |-> n, name |-> "name"]
ConfluenceDoc(n) == [id |-> n, title |-> "title"]
TestPlan(n) == [story |-> Story(n), summary |-> "plan"]

\* Document text, metadata and id of one record, per record kind.
jira_document(story) == <<"Story", story.key, story.summary>>
jira_metadata(story, project_key, t) ==
  [story_key |-> story.key,
   project_key |-> IF project_key # None THEN project_key ELSE KeyProject(story.key),
   timestamp |-> Second(t)]
\* Mutant: the ticket id carries a timestamp suffix, as the plan id does.
jira_id_timestamped(story) == <<"jira", story.key, Second(now)>>
jira_id(story) == <<"jira", story.key>>

test_document(test) == <<"Test", test.name>>
test_metadata(test, project_key, t) ==
  [test_key |-> test.key, project_key |-> project_key, timestamp |-> Second(t)]
\* Mutant: the catalog id is suffixed with the second instead of the day.
test_id_by_second(test, t) == <<"test", test.key, Second(t)>>
test_id(test, t) == <<"test", test.key, Day(t)>>

confluence_document(doc) == <<"Title", doc.title>>
confluence_metadata(doc, project_key, t) ==
  [doc_id |-> doc.id,
   project_key |-> IF project_key # None THEN project_key ELSE "unknown",
   timestamp |-> Second(t)]
confluence_id(doc, t) == <<"confluence", doc.id, Day(t)>>

plan_document(test_plan) == <<"Story", test_plan.story.key, test_plan.summary>>
plan_metadata(test_plan, t) ==
  [story_key |-> test_plan.story.key,
   project_key |-> KeyProject(test_plan.story.key),
   timestamp |-> Second(t)]
plan_id(test_plan, t) == <<"testplan", test_plan.story.key, Second(t)>>

PagedKinds == {"index_confluence_docs", "index_jira_stories", "index_existing_tests"}

CollectionOf(kind) ==
  CASE kind = "index_test_plan" -> TEST_PLANS_COLLECTION
    [] kind = "index_confluence_docs" -> CONFLUENCE_DOCS_COLLECTION
    [] kind = "index_jira_stories" -> JIRA_STORIES_COLLECTION
    [] kind = "index_existing_tests" -> EXISTING_TESTS_COLLECTION

DocumentOf(kind, rec) ==
  CASE kind = "index_confluence_docs" -> confluence_document(rec)
    [] kind = "index_jira_stories" -> jira_document(rec)
    [] kind = "index_existing_tests" -> test_document(rec)

MetadataOf(kind, rec, project_key, t) ==
  CASE kind = "index_confluence_docs" -> confluence_metadata(rec, project_key, t)
    [] kind = "index_jira_stories" -> jira_metadata(rec, project_key, t)
    [] kind = "index_existing_tests" -> test_metadata(rec, project_key, t)

IdOf(kind, rec, t) ==
  CASE kind = "index_confluence_docs" -> confluence_id(rec, t)
    [] kind = "index_jira_stories" -> jira_id(rec)
    [] kind = "index_existing_tests" -> test_id(rec, t)

\* Mutant: the page slice is one record too long.
PageAt_overlong(records, i) == SubSeq(records, i + 1, Min(i + BATCH_SIZE + 1, Len(records)))

\* The page that starts at offset i (0-based, as range(0, len, BATCH_SIZE)).
PageAt(records, i) == SubSeq(records, i + 1, Min(i + BATCH_SIZE, Len(records)))

\* Mutant: the loop goes on with the next page after a failed one.
leaves_loop_never(err) == FALSE

\* An exception raised by add_documents inside the for loop is not handled in
\* the loop: it leaves it for the handler of the operation.
leaves_loop(err) == err # "none"

\* The batch loop shared by index_confluence_docs, index_jira_stories and
\* index_existing_tests, from offset i: one add_documents call per page, the
\* first exception leaves the loop.  failPage is the page whose storage call
\* (storeFail) raises, 0 for none; failing the embedding chunks that fail in
\* every page.  acc carries the exception raised, the add_documents calls and
\* the provider calls so far.
RECURSIVE index_pages(_, _, _, _, _, _, _, _, _, _, _)
index_pages(st, mat, kind, records, project_key, t, i, failPage, storeFail, failing, acc) ==
  IF i >= Len(records) \/ leaves_loop(acc.err)
  THEN [err |-> acc.err, store |-> st, materialised |-> mat,
        addCalls |-> acc.addCalls, providerCalls |-> acc.providerCalls]
  ELSE LET batch == PageAt(records, i)
           batch_num == (i \div BATCH_SIZE) + 1
           documents == [j \in 1..Len(batch) |-> DocumentOf(kind, batch[j])]
           metadatas == [j \in 1..Len(batch) |-> MetadataOf(kind, batch[j], project_key, t)]
           ids == [j \in 1..Len(batch) |-> IdOf(kind, batch[j], t)]
           r == add_documents(st, mat, CollectionOf(kind), documents, metadatas, ids,
                              failing,
                              IF batch_num = failPage THEN storeFail ELSE "none")
           acc2 == [err |-> IF acc.err # "none" THEN acc.err ELSE r.err,
                    addCalls |-> Append(acc.addCalls, ids),
                    providerCalls |-> acc.providerCalls + r.providerCalls]
       IN index_pages(r.store, r.materialised, kind, records, project_key, t,
                      i + BATCH_SIZE, failPage, storeFail, failing, acc2)

\* The body of a paged indexing operation: nothing for an empty list, otherwise
\* the batch loop inside try/except.
index_records(st, mat, kind, records, project_key, t, failPage, storeFail, failing) ==
  IF records = <<>>
  THEN [err |-> "none", store |-> st, materialised |-> mat,
        addCalls |-> <<>>, providerCalls |-> 0]
  ELSE index_pages(st, mat, kind, records, project_key, t, 0, failPage, storeFail,
                   failing, [err |-> "none", addCalls |-> <<>>, providerCalls |-> 0])

\* Mutant: the handler re-raises what it caught.
caught_reraised(err) == IF err = "none" THEN "ok" ELSE err

\* `except Exception as e: logger.error(...)`: what the operation hands to its
\* caller when its body ended with error err.
caught(err) == "ok"

\* Runs of the model index records of one collection at a time: an indexing
\* operation reads and writes its own collection only.
OthersEmpty(c) ==
  \A c2 \in Collections \ {c} : store[c2] = {} /\ c2 \notin materialised

\* The n-th record of each kind.
RecordOf(kind, n) ==
  CASE kind = "index_confluence_docs" -> ConfluenceDoc(n)
    [] kind = "index_jira_stories" -> Story(n)
    [] kind = "index_existing_tests" -> Test(n)

\* The record list of shape <<n, order>>: n records, which are the records
\* 1..n ("distinct"), n..1 ("reversed") or n times record 1 ("repeated").
RecordNumber(shape, i) ==
  CASE shape[2] = "distinct" -> i
    [] shape[2] = "reversed" -> shape[1] + 1 - i
    [] shape[2] = "repeated" -> 1

RecordList(kind, shape) ==
  [i \in 1..shape[1] |-> RecordOf(kind, RecordNumber(shape, i))]

\* A paged indexing operation called with a record list of the given shape;
\* the list is built for the call, as every caller passes objects of its own.
IndexPaged(kind, shape, project_key, failPage, storeFail, failing) ==
  /\ OthersEmpty(CollectionOf(kind))
  /\ \E records \in {RecordList(kind, shape)} :
       \E r \in {index_records(store, materialised, kind, records, project_key, now,
                               failPage, storeFail, failing)} :
         /\ store' = r.store
         /\ materialised' = r.materialised
         /\ op' = [name |-> kind, records |-> records]
         /\ result' = caught(r.err)
         /\ logged' = r.err
         /\ providerCalls' = r.providerCalls
         /\ addCalls' = r.addCalls
  /\ UNCHANGED <<latest, zephyrVars, planCalls, now, retrVars, genVars>>

\* index_test_plan: one add_documents call inside try/except.
index_test_plan(test_plan, storeFail, failing) ==
  \E r \in {add_documents(store, materialised, TEST_PLANS_COLLECTION,
                          <<plan_document(test_plan)>>,
                          <<plan_metadata(test_plan, now)>>,
                          <<plan_id(test_plan, now)>>, failing, storeFail)} :
    /\ store' = r.store
    /\ materialised' = r.materialised
    /\ op' = [name |-> "index_test_plan", records |-> <<test_plan>>]
    /\ result' = caught(r.err)
    /\ logged' = r.err
    /\ providerCalls' = r.providerCalls
    /\ addCalls' = <<<<plan_id(test_plan, now)>>>>
    /\ planCalls' = IF r.err = "none" THEN planCalls + 1 ELSE planCalls

\* index_test_plan called with the n-th test plan.
IndexTestPlan(n, storeFail, failing) ==
  /\ OthersEmpty(TEST_PLANS_COLLECTION)
  /\ planCalls < MaxPlanCalls
  /\ index_test_plan(TestPlan(n), storeFail, failing)
  /\ UNCHANGED <<latest, zephyrVars, now, retrVars, genVars>>

\* The wall clock advances.
Tick ==
  /\ now < MaxTime
  /\ now' = now + 1
  /\ op' = [name |-> "tick"]
  /\ result' = "none"
  /\ logged' = "none"
  /\ providerCalls' = 0
  /\ addCalls' = <<>>
  /\ UNCHANGED <<store, materialised, latest, zephyrVars, planCalls, retrVars, genVars>>

\* The shapes of the record lists handed to a paged operation: none, one
\* record, a full page or MaxRecords distinct records, or one record twice.
\* The provider failures of a page are explored on add_documents itself
\* (StoreSpec) and on index_test_plan; the paged runs keep the provider up.
ListShapes ==
  {<<n, "distinct">> : n \in {0, 1, BATCH_SIZE, MaxRecords}} \cup {<<2, "repeated">>}

\* The project_key arguments: index_existing_tests requires one; a story's
\* project is PLAT whether it is passed or derived from the key.
ProjectKeys(kind) ==
  CASE kind = "index_existing_tests" -> {"PLAT"}
    [] kind = "index_jira_stories" -> {None}
    [] kind = "index_confluence_docs" -> {None, "PLAT"}

MaxPages == CeilDiv(MaxRecords, BATCH_SIZE)

IndexNext ==
  \/ \E kind \in PagedKinds :
       \E shape \in ListShapes, project_key \in ProjectKeys(kind),
          failPage \in 0..MaxPages, failing \in {{}} :
         \E storeFail \in IF failPage = 0 THEN {"none"} ELSE {"get_or_create", "add"} :
           IndexPaged(kind, shape, project_key, failPage, storeFail, failing)
  \/ \E storeFail \in StoreFailures, failing \in SUBSET (1..embed_calls(1)) :
       IndexTestPlan(1, storeFail, failing)
  \/ \E c \in Collections, fails \in BOOLEAN : ClearCollection(c, fails)
  \/ Tick

IndexSpec == Init /\ [][IndexNext]_vars

IndexOps == PagedKinds \cup {"index_test_plan"}

RECURSIVE Flatten(_)
Flatten(seqs) == IF seqs = <<>> THEN <<>> ELSE Head(seqs) \o Flatten(Tail(seqs))

\* The ids of the records of the last paged operation, in input order.
InputIds == [i \in 1..Len(op.records) |-> IdOf(op.name, op.records[i], now)]

(***************************************************************************)
(* C2: a paged indexing operation over N records in which no               *)
(* add_documents call raises makes exactly ceil(N / BATCH_SIZE)            *)
(* add_documents calls, in input order, each with at most BATCH_SIZE       *)
(* records, and afterwards the ids of all N records are in the collection. *)
(***************************************************************************)
C2_PagedIndexing ==
  (op.name \in PagedKinds /\ logged = "none") =>
    /\ Len(addCalls) = CeilDiv(Len(op.records), BATCH_SIZE)
    /\ \A k \in DOMAIN addCalls : Len(addCalls[k]) \in 1..BATCH_SIZE
    /\ Flatten(addCalls) = InputIds
    /\ Range(InputIds) \subseteq IdsOf(store[CollectionOf(op.name)])

C2_Witness ==
  /\ op.name \in PagedKinds
  /\ logged = "none"
  /\ Len(op.records) > BATCH_SIZE
  /\ Len(op.records) % BATCH_SIZE # 0
  /\ Len(addCalls) = 2
  /\ Cardinality(store[CollectionOf(op.name)]) >= Len(op.records)

(***************************************************************************)
(* C4: every indexing operation returns normally to its caller, whatever   *)
(* failure the store raised on a page or record.                           *)
(***************************************************************************)
C4_IndexingNeverRaises ==
  op.name \in IndexOps => result = "ok"

C4_Witness ==
  /\ op.name \in PagedKinds
  /\ logged = "StoreError"
  /\ Len(addCalls) = 2
  /\ result = "ok"

(***************************************************************************)
(* C7: ticket memory never holds two documents for one ticket key; an      *)
(* index_jira_stories call whose ticket keys are all stored already leaves *)
(* the collection count as it was; and the first successful indexing of    *)
(* one ticket into an empty collection leaves the count at 1.              *)
(***************************************************************************)
StoredStoryKeys(st) == {d.metadata.story_key : d \in st[JIRA_STORIES_COLLECTION]}

OneDocumentPerStoryKey(st) ==
  \A d1, d2 \in st[JIRA_STORIES_COLLECTION] :
    d1.metadata.story_key = d2.metadata.story_key => d1 = d2

C7_ReindexedTicketStaysOne ==
  [][ /\ OneDocumentPerStoryKey(store')
      /\ (op'.name = "index_jira_stories" /\ op'.records # <<>>
          /\ \A i \in DOMAIN op'.records : op'.records[i].key \in StoredStoryKeys(store))
           => Cardinality(store'[JIRA_STORIES_COLLECTION])
                = Cardinality(store[JIRA_STORIES_COLLECTION])
      /\ (op'.name = "index_jira_stories" /\ Len(op'.records) = 1 /\ logged' = "none"
          /\ store[JIRA_STORIES_COLLECTION] = {})
           => Cardinality(store'[JIRA_STORIES_COLLECTION]) = 1 ]_vars

\* The ticket was indexed at an earlier tick, indexed again now, and is stored once.
C7_Witness ==
  /\ op.name = "index_jira_stories"
  /\ Len(op.records) = 1
  /\ logged = "none"
  /\ Cardinality(store[JIRA_STORIES_COLLECTION]) = 1
  /\ \E d \in store[JIRA_STORIES_COLLECTION] :
       d.metadata.story_key = op.records[1].key /\ d.metadata.timestamp < now

(***************************************************************************)
(* C8: every successful index_test_plan call grows the plan-memory count   *)
(* by one: the count is the number of successful calls since plan memory   *)
(* was last empty (2 after the second call on an empty collection).        *)
(***************************************************************************)
C8_PlanCountIsCallCount ==
  Cardinality(store[TEST_PLANS_COLLECTION]) = planCalls

(***************************************************************************)
(* C9 as claimed: test-catalog memory holds one document per catalog test  *)
(* case key, whenever the test case was indexed.                           *)
(***************************************************************************)
C9_OneDocumentPerTestKey ==
  \A d1, d2 \in store[EXISTING_TESTS_COLLECTION] :
    d1.metadata.test_key = d2.metadata.test_key => d1 = d2

(***************************************************************************)
(* C9 as amended: test-catalog memory holds one document per catalog test  *)
(* case key and calendar day of indexing.                                  *)
(***************************************************************************)
C9_OneDocumentPerTestKeyAndDay ==
  \A d1, d2 \in store[EXISTING_TESTS_COLLECTION] :
    (d1.metadata.test_key = d2.metadata.test_key
       /\ Day(d1.metadata.timestamp) = Day(d2.metadata.timestamp)) => d1 = d2

\* The test case was indexed at an earlier tick of today, indexed again now,
\* and today's document is still the earlier one; another day's is kept too.
C9_Witness ==
  /\ op.name = "index_existing_tests"
  /\ Len(op.records) = 1
  /\ logged = "none"
  /\ \E d \in store[EXISTING_TESTS_COLLECTION] :
       /\ d.metadata.test_key = op.records[1].key
       /\ d.metadata.timestamp < now
       /\ Day(d.metadata.timestamp) = Day(now)

(***************************************************************************)
(* rag_store.py: get_collection_stats and retrieve_similar                 *)
(***************************************************************************)
\* settings.rag_top_k_tests / _docs / _stories / _existing (5, 10, 10, 20 by
\* default), scaled to the size of the seeded collections.
rag_top_k_tests == 1
rag_top_k_docs == 2
rag_top_k_stories == 2
rag_top_k_existing == 2

TopK(c) ==
  CASE c = TEST_PLANS_COLLECTION -> rag_top_k_tests
    [] c = CONFLUENCE_DOCS_COLLECTION -> rag_top_k_docs
    [] c = JIRA_STORIES_COLLECTION -> rag_top_k_stories
    [] c = EXISTING_TESTS_COLLECTION -> rag_top_k_existing

\* get_collection_stats: get_or_create_collection and count(); any exception
\* gives count 0.  Getting the collection creates it when it does not exist.
get_collection_stats(st, mat, collection_name, fails) ==
  IF fails
  THEN [count |-> 0, exists |-> FALSE, materialised |-> mat]
  ELSE [count |-> Cardinality(st[collection_name]), exists |-> TRUE,
        materialised |-> mat \cup {collection_name}]

\* embed_single(text): embed_texts([text])[0]; the provider failure of the one
\* chunk gives the zero vector.
embed_single(text, providerFails) ==
  embed_texts(<<text>>, IF providerFails THEN {1} ELSE {})[1]

\* The geometry of the provider's vectors, abstracted to a line: the query
\* lies at 0, the text of seeded document n at n.  Against the zero vector
\* every cosine distance is the same.
Coordinate(text) == IF text[1] = "doc" THEN text[3] ELSE 0
Abs(x) == IF x < 0 THEN 0 - x ELSE x
Distance(q, e) ==
  IF q = ZeroVector \/ e = ZeroVector THEN 1
  ELSE Abs(Coordinate(q[2]) - Coordinate(e[2]))

\* metadata_filter=None (no where clause), written as a filter on no key.
NoFilter == [project_key |-> None]

\* Mutant: the where clause is not applied.
Matching_unfiltered(coll, where) == coll

\* where={"project_key": ...}: exact match on the metadata.
Matching(coll, where) ==
  IF where = NoFilter THEN coll
  ELSE {d \in coll : d.metadata.project_key = where.project_key}

\* Mutant: n_results is not applied, every matching record is returned.
collection_query_unbounded(coll, q, n_results, where) ==
  LET M == Matching(coll, where)
      k == Cardinality(M)
  IN {s \in [1..k -> M] :
        /\ \A i, j \in 1..k : i # j => s[i] # s[j]
        /\ \A i, j \in 1..k : i < j => Distance(q, s[i].embedding) <= Distance(q, s[j].embedding)}

\* ChromaDB's collection.query(query_embeddings=[q], n_results, where): the
\* n_results nearest of the matching records, nearest first; records at the
\* same distance come in any order.
collection_query(coll, q, n_results, where) ==
  LET M == Matching(coll, where)
      k == Min(n_results, Cardinality(M))
  IN {s \in [1..k -> M] :
        /\ \A i, j \in 1..k : i # j => s[i] # s[j]
        /\ \A i, j \in 1..k : i < j => Distance(q, s[i].embedding) <= Distance(q, s[j].embedding)
        /\ \A d \in M \ Range(s) :
             \A i \in 1..k : Distance(q, s[i].embedding) <= Distance(q, d.embedding)}

\* The result list retrieve_similar formats from a query answer.
formatted(q, s) ==
  [i \in 1..Len(s) |->
     [id |-> s[i].id, document |-> s[i].document, metadata |-> s[i].metadata,
      distance |-> Distance(q, s[i].embedding)]]

QueryFailures == {"none", "embed", "create", "query"}

\* What retrieve_similar can come to, per failing call.  failure names the call
\* that raises: the provider ("embed": the query is made with the zero vector),
\* get_or_create_collection ("create") or collection.query ("query");
\* collection.query also raises for n_results below 1.  raised tells whether
\* retrieve_similar itself raises, out is the list it returns.
\* Mutant: the two handlers of retrieve_similar re-raise.
retrieve_similar_unguarded(st, collection_name, query_text, top_k, metadata_filter, failure) ==
  LET query_embedding == embed_single(query_text, failure = "embed")
  IN IF failure \in {"create", "query"} \/ top_k < 1
     THEN {[raised |-> TRUE, out |-> <<>>]}
     ELSE {[raised |-> FALSE, out |-> formatted(query_embedding, s)] :
             s \in collection_query(st[collection_name], query_embedding, top_k,
                                    metadata_filter)}

\* Mutant: the query is answered from a stale index, in which a collection
\* that was emptied meanwhile still yields its first document.
retrieve_similar_stale(st, collection_name, query_text, top_k, metadata_filter, failure) ==
  IF st[collection_name] = {}
  THEN {[raised |-> FALSE,
         out |-> <<[id |-> <<"seed", collection_name, 1>>,
                    document |-> <<"doc", collection_name, 1>>,
                    metadata |-> [project_key |-> "PLAT"], distance |-> 1]>>]}
  ELSE {[raised |-> FALSE, out |-> formatted(embed_single(query_text, FALSE), s)] :
          s \in collection_query(st[collection_name], embed_single(query_text, FALSE),
                                 top_k, metadata_filter)}

\* retrieve_similar: both failures of the store are caught and give [].
retrieve_similar(st, collection_name, query_text, top_k, metadata_filter, failure) ==
  LET query_embedding == embed_single(query_text, failure = "embed")
  IN IF failure \in {"create", "query"} \/ top_k < 1
     THEN {[raised |-> FALSE, out |-> <<>>]}
     ELSE {[raised |-> FALSE, out |-> formatted(query_embedding, s)] :
             s \in collection_query(st[collection_name], query_embedding, top_k,
                                    metadata_filter)}

\* The collections retrieve_similar leaves behind: get_or_create_collection
\* creates the collection unless it is the call that fails.
materialised_by_query(mat, collection_name, failure) ==
  IF failure = "create" THEN mat ELSE mat \cup {collection_name}

(***************************************************************************)
(* rag_retriever.py: RAGRetriever.retrieve_for_story                       *)
(***************************************************************************)
\* A story whose key is None is written with NoKey in place of the key.
NoKey == [project |-> None, num |-> 0]
ValidStory == Story(1)
StoryWithoutKey == [ValidStory EXCEPT !.key = NoKey]
StoryWithoutSummary == [ValidStory EXCEPT !.summary = None]
StoriesIn == {ValidStory, StoryWithoutKey, StoryWithoutSummary}

\* _build_query: summary, description prefix and components joined.
build_query(story) == <<"query", story.summary>>

\* retrieve_for_story raises before the fan-out when the project key has to be
\* derived from a key that is no string, or the summary cannot be joined.
StoryRaises(story, project_key) ==
  \/ project_key = None /\ story.key = NoKey
  \/ story.summary = None

\* Mutant: one failed lookup empties the whole context.
gathered_fail_fast(lk) ==
  IF \E c \in Collections : lk[c].failure # "none"
  THEN [c \in Collections |-> <<>>]
  ELSE [c \in Collections |-> lk[c].out]

\* What asyncio.gather(..., return_exceptions=True) and the isinstance checks
\* make of the four lookups: an exception becomes [].
gathered(lk) ==
  [c \in Collections |-> IF lk[c].raised THEN <<>> ELSE lk[c].out]

\* RetrievedContext.has_context
has_context(ctx) == \E c \in Collections : ctx[c] # <<>>

StartRetrieve(story, project_key) ==
  /\ rpc = "idle"
  /\ IF StoryRaises(story, project_key)
     THEN /\ rpc' = "raised"
          /\ UNCHANGED <<rcall, lookups>>
     ELSE /\ rpc' = "gather"
          /\ rcall' = [query |-> build_query(story),
                       metadata_filter |->
                         [project_key |-> IF project_key = None
                                          THEN KeyProject(story.key) ELSE project_key]]
          /\ lookups' = [c \in Collections |->
                           [pc |-> "pending", failure |-> "none", raised |-> FALSE,
                            count |-> 0, queried |-> FALSE, providerCalls |-> 0,
                            out |-> <<>>]]
  /\ op' = [name |-> "retrieve_for_story", story |-> story, project_key |-> project_key]
  /\ UNCHANGED <<store, materialised, latest, zephyrVars, planCalls, now, result, logged,
                 providerCalls, addCalls, context, genVars>>

\* Mutant: the lookup queries whatever the count is.
short_circuit_never(count) == FALSE

\* `if stats.get('count', 0) == 0: return []`
short_circuit(count) == count = 0

\* A lookup coroutine up to its first suspension: the stats check, and the
\* return of [] when the count is 0.
LookupStats(c, fails) ==
  /\ rpc = "gather"
  /\ lookups[c].pc = "pending"
  /\ \E stats \in {get_collection_stats(store, materialised, c, fails)} :
       /\ materialised' = stats.materialised
       /\ lookups' = [lookups EXCEPT ![c] =
                        [pc |-> IF short_circuit(stats.count) THEN "done" ELSE "waiting",
                         failure |-> IF fails THEN "stats" ELSE "none",
                         raised |-> FALSE, count |-> stats.count,
                         queried |-> FALSE, providerCalls |-> 0, out |-> <<>>]]
  /\ UNCHANGED <<store, latest, zephyrVars, planCalls, now, op, result, logged, providerCalls,
                 addCalls, rpc, rcall, context, genVars>>

\* The rest of a lookup coroutine: retrieve_similar and the return of its list.
LookupQuery(c, failure) ==
  /\ rpc = "gather"
  /\ lookups[c].pc = "waiting"
  /\ \E r \in retrieve_similar(store, c, rcall.query, TopK(c),
                               rcall.metadata_filter, failure) :
       lookups' = [lookups EXCEPT ![c] =
                     [pc |-> "done", failure |-> failure, raised |-> FALSE,
                      count |-> lookups[c].count, queried |-> TRUE,
                      providerCalls |-> embed_calls(1),
                      out |-> IF r.raised THEN <<>> ELSE r.out]]
  /\ materialised' = materialised_by_query(materialised, c, failure)
  /\ UNCHANGED <<store, latest, zephyrVars, planCalls, now, op, result, logged, providerCalls,
                 addCalls, rpc, rcall, context, genVars>>

\* The fan-in: the RetrievedContext is built and returned.
Gather ==
  /\ rpc = "gather"
  /\ \A c \in Collections : lookups[c].pc = "done"
  /\ context' = gathered(lookups)
  /\ rpc' = "returned"
  /\ UNCHANGED <<store, materialised, latest, zephyrVars, planCalls, now, op, result, logged,
                 providerCalls, addCalls, rcall, lookups, genVars>>

\* The stores a retrieval runs against: each collection empty or seeded with
\* its first documents; document 2 belongs to another project.
MaxSeed == 3

SeedDoc(c, n) ==
  [id |-> <<"seed", c, n>>, document |-> <<"doc", c, n>>,
   metadata |-> [project_key |-> IF n = 2 THEN "OTHER" ELSE "PLAT"],
   embedding |-> ProviderVector(<<"doc", c, n>>)]

SeedSizes(c) == IF c = TEST_PLANS_COLLECTION THEN {0, 1, MaxSeed} ELSE {0, MaxSeed}

SeedStores ==
  {[c \in Collections |-> {SeedDoc(c, n) : n \in 1..size[c]}] :
     size \in {f \in [Collections -> 0..MaxSeed] : \A c \in Collections : f[c] \in SeedSizes(c)}}

RetrieveInit ==
  /\ store \in SeedStores
  /\ materialised = {c \in Collections : store[c] # {}}
  /\ Quiet

RetrieveNext ==
  \/ \E story \in StoriesIn, project_key \in {None, "PLAT", "OTHER"} :
       StartRetrieve(story, project_key)
  \/ \E c \in Collections, fails \in BOOLEAN : LookupStats(c, fails)
  \/ \E c \in Collections, failure \in QueryFailures : LookupQuery(c, failure)
  \/ Gather

RetrieveSpec == RetrieveInit /\ [][RetrieveNext]_vars

\* The scenario of the retrieval contract: plan memory holds one document of
\* the story's project, its lookup runs undisturbed, and the query of
\* documentation memory throws.
PlanKeptDocsQueryThrows ==
  /\ Cardinality(store[TEST_PLANS_COLLECTION]) = 1
  /\ Matching(store[TEST_PLANS_COLLECTION], rcall.metadata_filter) # {}
  /\ lookups[TEST_PLANS_COLLECTION].failure = "none"
  /\ lookups[CONFLUENCE_DOCS_COLLECTION].failure = "query"

\* C1: the four lookups of retrieve_for_story are exception-isolated.  When
\* the stats check or the similarity query of a collection throws, that
\* collection's list in the returned context is empty, and every other
\* collection's list is exactly what its own lookup returned; with one plan in
\* plan memory and the documentation query throwing, the context has
\* has_context() true, one similar plan and no similar docs.
C1_LookupsIsolated ==
  rpc = "returned" =>
    /\ \A c \in Collections :
         /\ lookups[c].failure \in {"stats", "create", "query"} => context[c] = <<>>
         /\ context[c] = lookups[c].out
    /\ PlanKeptDocsQueryThrows =>
         /\ has_context(context)
         /\ Len(context[TEST_PLANS_COLLECTION]) = 1
         /\ Len(context[CONFLUENCE_DOCS_COLLECTION]) = 0

C1_Witness ==
  /\ rpc = "returned"
  /\ PlanKeptDocsQueryThrows
  /\ Len(context[TEST_PLANS_COLLECTION]) = 1

Malformed(story) == story.key = NoKey \/ story.summary = None

\* C10: retrieve_for_story raises only for a malformed story; whatever fails
\* in any subset of the collections (the embedding provider, the stats check,
\* the store query), it returns a context whose lists are empty for the
\* affected collections.
C10_FailsOnlyForMalformedStory ==
  /\ rpc = "raised" => Malformed(op.story)
  /\ rpc = "returned" =>
       \A c \in Collections : lookups[c].failure # "none" => context[c] = <<>>

(***************************************************************************)
(* test_plan_generator.py: TestPlanGenerator.generate_test_plan            *)
(***************************************************************************)
\* What the retrieval block (RAGRetriever() and retrieve_for_story inside one
\* try) can come to.  RAGRetriever() raises when the embedding credential is
\* missing.
RetrievalOutcomes == {"retriever_init_failed", "retrieve_raised", "no_context", "context"}

\* Mutant: the failure of the retrieval block ends the generation.
after_rag_failure_reraised == "raised"

\* except Exception: warning, use_rag = False, generation continues.
after_rag_failure == "generate"

\* except Exception: "Failed to auto-index test plan" is logged, the plan is
\* returned.
after_index_failure == "returned"

\* Mutant: the indexing is awaited before the plan is returned.
after_create_task_awaited == "awaiting_index"

\* asyncio.create_task(...) is not awaited: the next statement is
\* `return test_plan`.
after_create_task == "returned"

\* generate_test_plan(context, use_rag) is entered; use_rag is the argument
\* or, when None, settings.enable_rag.
GenStart(use_rag) ==
  /\ gen.pc = "idle"
  /\ planCalls < MaxPlanCalls
  /\ gen' = [pc |-> IF use_rag THEN "retrieve" ELSE "generate",
             use_rag |-> use_rag, grounded |-> FALSE, failed |-> {}]
  /\ UNCHANGED <<store, materialised, latest, zephyrVars, planCalls, now, op, result, logged,
                 providerCalls, addCalls, retrVars, task>>

\* The retrieval block.
GenRetrieve(outcome) ==
  /\ gen.pc = "retrieve"
  /\ gen' = IF outcome \in {"retriever_init_failed", "retrieve_raised"}
            THEN [gen EXCEPT !.pc = after_rag_failure, !.use_rag = FALSE,
                             !.failed = {outcome}]
            ELSE [gen EXCEPT !.pc = "generate", !.grounded = (outcome = "context")]
  /\ UNCHANGED <<store, materialised, latest, zephyrVars, planCalls, now, op, result, logged,
                 providerCalls, addCalls, retrVars, task>>

\* Prompt, AI call, parsing, and the scheduling of the indexing task; no
\* suspension point lies between them.  The AI call's failure is re-raised.
GenGenerate(aiOk, rag_auto_index, indexerOk) ==
  /\ gen.pc = "generate"
  /\ IF ~aiOk
     THEN /\ gen' = [gen EXCEPT !.pc = "raised", !.failed = @ \cup {"ai"}]
          /\ UNCHANGED task
     ELSE IF gen.use_rag /\ rag_auto_index
     THEN IF indexerOk
          THEN /\ gen' = [gen EXCEPT !.pc = after_create_task]
               /\ task' = "scheduled"
          ELSE /\ gen' = [gen EXCEPT !.pc = after_index_failure,
                                     !.failed = @ \cup {"indexer_init_failed"}]
               /\ UNCHANGED task
     ELSE /\ gen' = [gen EXCEPT !.pc = "returned"]
          /\ UNCHANGED task
  /\ UNCHANGED <<store, materialised, latest, zephyrVars, planCalls, now, op, result, logged,
                 providerCalls, addCalls, retrVars>>

\* The event loop runs the task created for indexer.index_test_plan.
TaskRun(storeFail, failing) ==
  /\ task = "scheduled"
  /\ index_test_plan(TestPlan(1), storeFail, failing)
  /\ task' = IF logged' = "none" THEN "done" ELSE "done_logged"
  /\ gen' = IF logged' = "none" THEN gen
            ELSE [gen EXCEPT !.failed = @ \cup {"index_failed"}]
  /\ UNCHANGED <<latest, zephyrVars, now, retrVars>>

\* asyncio.run(orchestrator._generate_test_plan()) ends once the plan is
\* returned: closing the loop cancels the tasks that are still pending, and
\* the cancellation (no Exception) passes the handler of index_test_plan.
LoopClose ==
  /\ gen.pc = "returned"
  /\ task = "scheduled"
  /\ task' = "cancelled"
  /\ UNCHANGED <<store, materialised, latest, zephyrVars, planCalls, now, op, result, logged,
                 providerCalls, addCalls, retrVars, gen>>

\* The caller has the outcome; the next generation can start.
GenDone ==
  /\ gen.pc \in {"returned", "raised"}
  /\ task # "scheduled"
  /\ gen' = IdleGen
  /\ task' = "none"
  /\ UNCHANGED <<store, materialised, latest, zephyrVars, planCalls, now, op, result, logged,
                 providerCalls, addCalls, retrVars>>

GenNext ==
  \/ \E use_rag \in BOOLEAN : GenStart(use_rag)
  \/ \E outcome \in RetrievalOutcomes : GenRetrieve(outcome)
  \/ \E aiOk, rag_auto_index, indexerOk \in BOOLEAN : GenGenerate(aiOk, rag_auto_index, indexerOk)
  \/ \E storeFail \in StoreFailures, failing \in SUBSET (1..embed_calls(1)) :
       TaskRun(storeFail, failing)
  \/ LoopClose
  \/ GenDone
  \/ Tick

GenSpec == Init /\ [][GenNext]_vars

\* While the event loop runs, a scheduled task gets its turn.
GenFairSpec ==
  GenSpec /\ WF_vars(\E storeFail \in StoreFailures, failing \in SUBSET (1..embed_calls(1)) :
                       TaskRun(storeFail, failing))

SubsystemFailures ==
  {"retriever_init_failed", "retrieve_raised", "indexer_init_failed", "index_failed"}

\* C5: generate_test_plan never fails because of the retrieval and indexing
\* subsystem.  When the retriever's construction, the retrieval, the indexer's
\* construction or the indexing of the plan fails, the generation still
\* returns the plan, ungrounded at worst: it raises only when the AI call
\* itself failed, and a failed retrieval leaves the plan ungrounded.
C5_GenerationSurvivesSubsystem ==
  /\ gen.pc = "raised" => "ai" \in gen.failed
  /\ gen.failed \cap {"retriever_init_failed", "retrieve_raised"} # {} => ~gen.grounded

C5_Witness ==
  /\ gen.pc = "returned"
  /\ "index_failed" \in gen.failed
  /\ task = "done_logged"

\* C11: for each collection whose count is 0 at the stats check, the lookup
\* returns an empty list without calling retrieve_similar or the embedding
\* provider for it; when all four collections are empty, the returned context
\* has four empty lists and has_context() false.
C11_EmptyCollectionShortCircuits ==
  /\ \A c \in Collections :
       (lookups[c].pc = "done" /\ lookups[c].count = 0) =>
         /\ lookups[c].out = <<>>
         /\ ~lookups[c].queried
         /\ lookups[c].providerCalls = 0
  /\ (rpc = "returned" /\ \A c \in Collections : store[c] = {}) =>
       /\ ~has_context(context)
       /\ \A c \in Collections : context[c] = <<>>

C11_Witness ==
  /\ rpc = "returned"
  /\ store[TEST_PLANS_COLLECTION] = {}
  /\ store[JIRA_STORIES_COLLECTION] # {}
  /\ lookups[TEST_PLANS_COLLECTION].failure = "none"
  /\ lookups[JIRA_STORIES_COLLECTION].queried
  /\ context[TEST_PLANS_COLLECTION] = <<>>

(***************************************************************************)
(* Direct use of the store with queries: add_documents, clear_collection   *)
(* and retrieve_similar calls on one collection.                           *)
(***************************************************************************)
\* A direct retrieve_similar call.  op keeps the arguments, whether the
\* collection existed before the call, and the returned list.
RetrieveSimilar(c, query_text, top_k, metadata_filter, failure) ==
  /\ \E r \in retrieve_similar(store, c, query_text, top_k, metadata_filter, failure) :
       /\ op' = [name |-> "retrieve_similar", collection |-> c, top_k |-> top_k,
                 metadata_filter |-> metadata_filter, existed |-> c \in materialised,
                 out |-> r.out]
       /\ result' = IF r.raised THEN "raised" ELSE "ok"
  /\ materialised' = materialised_by_query(materialised, c, failure)
  /\ logged' = IF failure \in {"create", "query"} \/ top_k < 1 THEN "QueryFailed" ELSE "none"
  /\ providerCalls' = embed_calls(1)
  /\ addCalls' = <<>>
  /\ UNCHANGED <<store, latest, zephyrVars, planCalls, now, retrVars, genVars>>

Filters == {NoFilter, [project_key |-> "PLAT"], [project_key |-> "OTHER"]}

QueryNext ==
  \/ \E c \in StoreCollections, ids \in SeqsUpTo(DocIds, MaxDocs), v \in Versions,
        failing \in SUBSET (1..embed_calls(MaxDocs)) :
       WellFormedCall(c, ids, v, failing, "none")
  \/ \E c \in StoreCollections, fails \in BOOLEAN : ClearCollection(c, fails)
  \/ \E c \in StoreCollections, top_k \in 0..MaxDocs, metadata_filter \in Filters,
        failure \in QueryFailures :
       RetrieveSimilar(c, build_query(ValidStory), top_k, metadata_filter, failure)

QuerySpec == Init /\ [][QueryNext]_vars

\* C12: retrieve_similar on a collection that was never written, was just
\* created or holds no documents returns the empty list and does not raise,
\* whatever the query text, top_k and metadata filter.
C12_EmptyCollectionGivesEmptyList ==
  (op.name = "retrieve_similar" /\ store[op.collection] = {}) =>
    (result = "ok" /\ op.out = <<>>)

C12_Witness ==
  /\ op.name = "retrieve_similar"
  /\ store[op.collection] = {}
  /\ ~op.existed
  /\ op.top_k > 0
  /\ logged = "none"
  /\ op.out = <<>>

\* The project key retrieve_for_story filters on: the supplied key, or the
\* part of story.key before the first '-'.
FilterProject == IF op.project_key = None THEN KeyProject(op.story.key) ELSE op.project_key

\* C13: every document returned by a retrieval with a metadata filter matches
\* the filter.  retrieve_for_story filters all four lookups on the supplied
\* project key, or on the project part of the story key when none is
\* supplied, so every entry of every list its lookups return, and of the
\* returned context, carries that project key.
C13_ResultsMatchFilter ==
  /\ rpc \in {"gather", "returned"} =>
       /\ rcall.metadata_filter = [project_key |-> FilterProject]
       /\ \A c \in Collections : \A i \in DOMAIN lookups[c].out :
            lookups[c].out[i].metadata.project_key = FilterProject
  /\ rpc = "returned" =>
       \A c \in Collections : \A i \in DOMAIN context[c] :
         context[c][i].metadata.project_key = FilterProject

C13_Witness ==
  /\ rpc = "returned"
  /\ op.project_key = None
  /\ \E d \in store[JIRA_STORIES_COLLECTION] : d.metadata.project_key = "OTHER"
  /\ \E d \in store[JIRA_STORIES_COLLECTION] : d.metadata.project_key = "PLAT"
  /\ Len(context[JIRA_STORIES_COLLECTION]) > 0

\* An entry of a result list carries the id, text and metadata of a stored
\* document of the collection, and a distance.
CarriesStoredDocument(entry, coll) ==
  /\ DOMAIN entry = {"id", "document", "metadata", "distance"}
  /\ \E d \in coll : d.id = entry.id /\ d.document = entry.document
                      /\ d.metadata = entry.metadata

Ascending(out) == \A i, j \in DOMAIN out : i < j => out[i].distance <= out[j].distance

\* C14: retrieve_similar returns at most top_k results in ascending order of
\* distance, each with its id, text, metadata and distance; so every list of
\* a RetrievedContext holds at most the top_k configured for its collection.
C14_AtMostTopKAscending ==
  /\ \A c \in Collections :
       lookups[c].pc = "done" =>
         /\ Len(lookups[c].out) <= TopK(c)
         /\ Ascending(lookups[c].out)
         /\ \A i \in DOMAIN lookups[c].out : CarriesStoredDocument(lookups[c].out[i], store[c])
  /\ rpc = "returned" =>
       \A c \in Collections : Len(context[c]) <= TopK(c) /\ Ascending(context[c])

C14_Witness ==
  /\ rpc = "returned"
  /\ Cardinality(Matching(store[TEST_PLANS_COLLECTION], rcall.metadata_filter)) > TopK(TEST_PLANS_COLLECTION)
  /\ Len(context[TEST_PLANS_COLLECTION]) = TopK(TEST_PLANS_COLLECTION)
  /\ Len(context[JIRA_STORIES_COLLECTION]) = 2
  /\ context[JIRA_STORIES_COLLECTION][1].distance < context[JIRA_STORIES_COLLECTION][2].distance

(***************************************************************************)
(* Direct use of the embedding service: embed_texts calls.                 *)
(***************************************************************************)
MaxTexts == 5

Texts == {"t1", "t2"}

\* The models EmbeddingService can be constructed with (the model argument or
\* settings.embedding_model) and the dimension of the vectors the provider
\* returns for each.
Models == {"text-embedding-3-small", "text-embedding-3-large"}
ModelDimension(model) == IF model = "text-embedding-3-large" THEN 3072 ELSE 1536

\* The chunk (1-based) the text at position i falls in.
ChunkOf(i) == ((i - 1) \div batch_size) + 1

\* A direct embed_texts call on a service constructed for `model`.
EmbedTexts(model, texts, failing) ==
  /\ op' = [name |-> "embed_texts", model |-> model, texts |-> texts,
            failing |-> failing, out |-> embed_texts(texts, failing)]
  /\ result' = "ok"
  /\ logged' = IF failing = {} THEN "none" ELSE "EmbedFailed"
  /\ providerCalls' = embed_calls(Len(texts))
  /\ addCalls' = <<>>
  /\ UNCHANGED <<store, materialised, latest, zephyrVars, planCalls, now, retrVars, genVars>>

\* The values an API key can have, as argument or in settings: None, the
\* empty string, or a key.
ApiKeys == {None, "", "sk-key"}

\* Mutant: the key is not validated.
key_missing_unchecked(api_key) == FALSE

\* `if not self.api_key:`
key_missing(api_key) == api_key \in {None, ""}

\* EmbeddingService.__init__: the key is the argument or, when that is
\* missing, settings.openai_api_key; without a key ValueError is raised before
\* the OpenAI client is created.
EmbeddingService_init(api_key, settings_key) ==
  LET self_api_key == IF api_key \in {None, ""} THEN settings_key ELSE api_key
  IN IF key_missing(self_api_key)
     THEN [err |-> "ValueError", client |-> FALSE]
     ELSE [err |-> "none", client |-> TRUE]

\* EmbeddingService(api_key) is constructed with settings.openai_api_key set to
\* settings_key.
ConstructEmbeddingService(api_key, settings_key) ==
  /\ \E r \in {EmbeddingService_init(api_key, settings_key)} :
       /\ op' = [name |-> "EmbeddingService", api_key |-> api_key,
                 settings_key |-> settings_key, client |-> r.client]
       /\ result' = IF r.err = "none" THEN "ok" ELSE r.err
  /\ logged' = "none"
  /\ providerCalls' = 0
  /\ addCalls' = <<>>
  /\ UNCHANGED <<store, materialised, latest, zephyrVars, planCalls, now, retrVars, genVars>>

EmbedNext ==
  \/ \E model \in Models, texts \in SeqsUpTo(Texts, MaxTexts) :
       \E failing \in SUBSET (1..embed_calls(Len(texts))) :
         EmbedTexts(model, texts, failing)
  \/ \E api_key \in ApiKeys, settings_key \in ApiKeys :
       ConstructEmbeddingService(api_key, settings_key)

EmbedSpec == Init /\ [][EmbedNext]_vars

\* C15: embed_texts returns exactly one vector per input text, the vector at
\* position i being the one of the text at position i, for every input length
\* (multiples of the chunk size or not) and every pattern of failing chunks.
C15_OneVectorPerTextInOrder ==
  op.name = "embed_texts" =>
    /\ Len(op.out) = Len(op.texts)
    /\ \A i \in DOMAIN op.texts :
         op.out[i] = IF ChunkOf(i) \in op.failing THEN ZeroVector
                     ELSE ProviderVector(op.texts[i])

C15_Witness ==
  /\ op.name = "embed_texts"
  /\ Len(op.texts) > batch_size
  /\ Len(op.texts) % batch_size # 0
  /\ op.failing = {1}
  /\ op.texts[1] # op.texts[2]
  /\ Len(op.out) = Len(op.texts)

\* C16: when the provider call of a chunk fails, embed_texts neither raises
\* nor stops: every text of the chunk gets a zero-filled vector of the
\* dimension of the configured model's vectors, and the texts of every other
\* chunk get their provider vectors.
C16_FailedChunkGetsModelSizedZeros ==
  op.name = "embed_texts" =>
    /\ result = "ok"
    /\ Len(op.out) = Len(op.texts)
    /\ \A i \in DOMAIN op.texts :
         IF ChunkOf(i) \in op.failing
         THEN op.out[i][1] = "zero" /\ op.out[i][2] = ModelDimension(op.model)
         ELSE op.out[i] = ProviderVector(op.texts[i])

\* C20: embed_texts([]) returns the empty list without invoking the provider.
C20_EmptyInputNoProviderCall ==
  (op.name = "embed_texts" /\ op.texts = <<>>) =>
    (result = "ok" /\ op.out = <<>> /\ providerCalls = 0)

C20_Witness ==
  /\ op.name = "embed_texts"
  /\ op.texts = <<>>
  /\ op.out = <<>>
  /\ providerCalls = 0

\* C19: add_documents with an empty documents list is a no-op and no error:
\* it returns normally, makes no embedding-provider call, creates no collection
\* and leaves every collection unchanged.
C19_EmptyAddIsNoOp ==
  [][(op'.name = "add_documents" /\ op'.lens[1] = 0) =>
       /\ result' = "ok"
       /\ providerCalls' = 0
       /\ materialised' = materialised
       /\ store' = store]_vars

C19_Witness ==
  /\ op.name = "add_documents"
  /\ op.lens[1] = 0
  /\ op.lens[3] > 0
  /\ result = "ok"
  /\ providerCalls = 0
  /\ \E c \in StoreCollections : store[c] # {}

(***************************************************************************)
(* Maintenance of a populated store: clear_collection and                  *)
(* clear_all_collections, with documents added again in between.           *)
(***************************************************************************)
\* clear_all_collections: clear_collection for the four collections in turn;
\* failing holds the collections whose delete_collection call fails.
clear_all_collections(st, mat, failing) ==
  LET r1 == clear_collection(st, mat, TEST_PLANS_COLLECTION,
                             TEST_PLANS_COLLECTION \in failing)
      r2 == clear_collection(r1.store, r1.materialised, CONFLUENCE_DOCS_COLLECTION,
                             CONFLUENCE_DOCS_COLLECTION \in failing)
      r3 == clear_collection(r2.store, r2.materialised, JIRA_STORIES_COLLECTION,
                             JIRA_STORIES_COLLECTION \in failing)
  IN clear_collection(r3.store, r3.materialised, EXISTING_TESTS_COLLECTION,
                      EXISTING_TESTS_COLLECTION \in failing)

ClearAllCollections(failing) ==
  /\ \E r \in {clear_all_collections(store, materialised, failing)} :
       /\ store' = r.store
       /\ materialised' = r.materialised
       /\ planCalls' = IF r.store[TEST_PLANS_COLLECTION] = {} THEN 0 ELSE planCalls
  /\ latest' = [c \in Collections |->
                  IF c \in failing \/ c \notin materialised THEN latest[c]
                  ELSE [i \in {} |-> None]]
  /\ op' = [name |-> "clear_all_collections"]
  /\ result' = "ok"
  /\ logged' = IF failing # {} \/ materialised # Collections THEN "ClearFailed" ELSE "none"
  /\ providerCalls' = 0
  /\ addCalls' = <<>>
  /\ UNCHANGED <<now, zephyrVars, retrVars, genVars>>

\* add_documents of the first seed document of collection c.
AddSeed(c) ==
  /\ \E r \in {add_documents(store, materialised, c, <<SeedDoc(c, 1).document>>,
                             <<SeedDoc(c, 1).metadata>>, <<SeedDoc(c, 1).id>>, {}, "none")} :
       /\ store' = r.store
       /\ materialised' = r.materialised
       /\ providerCalls' = r.providerCalls
  /\ op' = [name |-> "add_documents", lens |-> <<1, 1, 1>>]
  /\ result' = "ok"
  /\ logged' = "none"
  /\ addCalls' = <<>>
  /\ UNCHANGED <<latest, zephyrVars, planCalls, now, retrVars, genVars>>

ClearNext ==
  \/ \E c \in Collections, fails \in BOOLEAN : ClearCollection(c, fails)
  \/ \E failing \in SUBSET Collections : ClearAllCollections(failing)
  \/ \E c \in Collections : AddSeed(c)

ClearSpec == RetrieveInit /\ [][ClearNext]_vars

C17_IndexingDetached ==
  /\ [](task = "scheduled" => gen.pc = "returned")
  /\ [][(task = "scheduled" /\ task' # "scheduled") =>
          (gen'.pc = gen.pc /\ gen'.grounded = gen.grounded
             /\ gen'.use_rag = gen.use_rag)]_vars

C17_Witness ==
  /\ gen.pc = "returned"
  /\ task = "scheduled"
  /\ gen.grounded

\* C21: constructing an EmbeddingService when no API key is available, neither
\* as argument nor in settings, fails at once with ValueError, before any
\* provider client is created or called.
C21_MissingKeyFailsFast ==
  (op.name = "EmbeddingService" /\ op.api_key \in {None, ""}
     /\ op.settings_key \in {None, ""}) =>
    (result = "ValueError" /\ ~op.client /\ providerCalls = 0)

C21_Witness ==
  /\ op.name = "EmbeddingService"
  /\ op.api_key = None
  /\ op.settings_key = None
  /\ result = "ValueError"
  /\ ~op.client

\* C22: read operations only read.  The stats checks and similarity queries
\* of the four lookups of retrieve_for_story leave the store as it is: the
\* same collections exist, with the same documents.
C22_ReadsLeaveStoreUnchanged ==
  [][(rpc = "gather") => (store' = store /\ materialised' = materialised)]_vars

\* C23: when the embedding-provider call for the query of a lookup fails,
\* retrieve_for_story returns a context in which that collection's list is
\* empty.
C23_EmbedFailureGivesEmptyList ==
  rpc = "returned" =>
    \A c \in Collections : lookups[c].failure = "embed" => context[c] = <<>>

\* C24: when the embedding provider fails for one or more chunks of an
\* add_documents call (lists of equal length, distinct ids, the storage
\* working), the call does not raise and every document of the call is stored
\* under its id afterwards, those of the failed chunks with a zero-filled
\* embedding.
C24_FailedChunksStoredWithZeros ==
  [][\A c \in StoreCollections, ids \in SeqsUpTo(DocIds, MaxDocs), v \in Versions,
        failing \in SUBSET (1..embed_calls(MaxDocs)) :
       (/\ WellFormedCall(c, ids, v, failing, "none")
        /\ ids # <<>>
        /\ ~HasDuplicates(ids)
        /\ failing \cap (1..embed_calls(Len(ids))) # {})
         => /\ result' = "ok"
            /\ \A i \in DOMAIN ids :
                 \E d \in store'[c] :
                   /\ d.id = ids[i]
                   /\ d.document = TextOf(v)
                   /\ ChunkOf(i) \in failing => d.embedding = ZeroVector]_vars

(***************************************************************************)
(* context_indexer.py: ContextIndexer.index_story_context                  *)
(***************************************************************************)
\* StoryContext(main_story) with its linked_stories and confluence_docs lists.
StoryContext(main_story, linked_stories, confluence_docs) ==
  [main_story |-> main_story, linked_stories |-> linked_stories,
   confluence_docs |-> confluence_docs]

\* One awaited sub-step: the paged operation runs on what the earlier steps
\* left, unless an exception of an earlier step is propagating; what the
\* operation hands back (caught) decides whether an exception propagates.
sub_step(acc, kind, records, project_key, t, storeFail) ==
  IF acc.raised # "none" THEN acc
  ELSE LET r == index_records(acc.store, acc.materialised, kind, records, project_key,
                              t, IF storeFail = "none" THEN 0 ELSE 1, storeFail, {})
       IN [store |-> r.store, materialised |-> r.materialised,
           raised |-> IF caught(r.err) = "ok" THEN "none" ELSE caught(r.err),
           steps |-> Append(acc.steps, [kind |-> kind, records |-> records,
                                        err |-> r.err]),
           providerCalls |-> acc.providerCalls + r.providerCalls,
           addCalls |-> acc.addCalls \o r.addCalls]

\* index_story_context: the documentation when there is some, the linked
\* tickets when there are some, then the main ticket.  fails[k]: the storage
\* call that raises in the first page of sub-step k, if any.
index_story_context(st, mat, ctx, project_key, t, fails) ==
  LET s0 == [store |-> st, materialised |-> mat, raised |-> "none", steps |-> <<>>,
             providerCalls |-> 0, addCalls |-> <<>>]
      s1 == IF ctx.confluence_docs # <<>>
            THEN sub_step(s0, "index_confluence_docs", ctx.confluence_docs,
                          project_key, t, fails[1])
            ELSE s0
      s2 == IF ctx.linked_stories # <<>>
            THEN sub_step(s1, "index_jira_stories", ctx.linked_stories,
                          project_key, t, fails[2])
            ELSE s1
  IN sub_step(s2, "index_jira_stories", <<ctx.main_story>>, project_key, t, fails[3])

IndexStoryContext(ctx, project_key, fails) ==
  \E r \in {index_story_context(store, materialised, ctx, project_key, now, fails)} :
    /\ store' = r.store
    /\ materialised' = r.materialised
    /\ op' = [name |-> "index_story_context", context |-> ctx, steps |-> r.steps]
    /\ result' = IF r.raised = "none" THEN "ok" ELSE r.raised
    /\ logged' = IF \E k \in DOMAIN r.steps : r.steps[k].err # "none"
                 THEN "StepFailed" ELSE "none"
    /\ providerCalls' = r.providerCalls
    /\ addCalls' = r.addCalls
    /\ UNCHANGED <<latest, zephyrVars, planCalls, now, retrVars, genVars>>

\* The contexts the story collector hands over: the main ticket with no, one
\* or two linked tickets and with or without a documentation page.
Contexts ==
  {StoryContext(Story(1), linked, docs) :
     linked \in {<<>>, <<Story(2)>>, <<Story(2), Story(3)>>},
     docs \in {<<>>, <<ConfluenceDoc(1)>>}}

ContextNext ==
  \/ \E ctx \in Contexts, fails \in [1..3 -> StoreFailures] :
       IndexStoryContext(ctx, "PLAT", fails)
  \/ \E c \in {CONFLUENCE_DOCS_COLLECTION, JIRA_STORIES_COLLECTION} :
       ClearCollection(c, FALSE)

ContextSpec == Init /\ [][ContextNext]_vars

\* The sub-steps a call with this context is to run, in order.
ExpectedSteps(ctx) ==
  (IF ctx.confluence_docs # <<>>
   THEN <<[kind |-> "index_confluence_docs", records |-> ctx.confluence_docs]>>
   ELSE <<>>)
  \o (IF ctx.linked_stories # <<>>
      THEN <<[kind |-> "index_jira_stories", records |-> ctx.linked_stories]>>
      ELSE <<>>)
  \o <<[kind |-> "index_jira_stories", records |-> <<ctx.main_story>>]>>

\* C25: index_story_context runs documentation indexing (when the context has
\* docs), linked-ticket indexing (when it has linked tickets) and main-ticket
\* indexing in that order, whatever fails in any of them: it does not raise,
\* every later sub-step still runs, and the main ticket is submitted in
\* every call.
C25_SubStepsIsolated ==
  op.name = "index_story_context" =>
    /\ result = "ok"
    /\ [k \in DOMAIN op.steps |->
          [kind |-> op.steps[k].kind, records |-> op.steps[k].records]]
         = ExpectedSteps(op.context)

C25_Witness ==
  /\ op.name = "index_story_context"
  /\ Len(op.steps) = 3
  /\ op.steps[1].err # "none"
  /\ op.steps[2].err # "none"
  /\ op.steps[3].err = "none"
  /\ result = "ok"
  /\ Story(1).key \in StoredStoryKeys(store)

(***************************************************************************)
(* The memory under every kind of operation: indexing, statistics,         *)
(* retrieval and clears, in any order, within one second of the clock.     *)
(***************************************************************************)
\* A direct get_collection_stats call.
GetCollectionStats(c, fails) ==
  /\ \E r \in {get_collection_stats(store, materialised, c, fails)} :
       /\ materialised' = r.materialised
       /\ op' = [name |-> "get_collection_stats", collection |-> c,
                 count |-> r.count, exists |-> r.exists]
  /\ result' = "ok"
  /\ logged' = IF fails THEN "StatsFailed" ELSE "none"
  /\ providerCalls' = 0
  /\ addCalls' = <<>>
  /\ UNCHANGED <<store, latest, zephyrVars, planCalls, now, retrVars, genVars>>

\* get_all_stats: get_collection_stats for the four collections in turn and
\* the sum of the counts; failing holds the collections whose check fails.
get_all_stats(st, mat, failing) ==
  LET s1 == get_collection_stats(st, mat, TEST_PLANS_COLLECTION,
                                 TEST_PLANS_COLLECTION \in failing)
      s2 == get_collection_stats(st, s1.materialised, CONFLUENCE_DOCS_COLLECTION,
                                 CONFLUENCE_DOCS_COLLECTION \in failing)
      s3 == get_collection_stats(st, s2.materialised, JIRA_STORIES_COLLECTION,
                                 JIRA_STORIES_COLLECTION \in failing)
      s4 == get_collection_stats(st, s3.materialised, EXISTING_TESTS_COLLECTION,
                                 EXISTING_TESTS_COLLECTION \in failing)
  IN [total_documents |-> s1.count + s2.count + s3.count + s4.count,
      materialised |-> s4.materialised]

GetAllStats(failing) ==
  /\ \E r \in {get_all_stats(store, materialised, failing)} :
       /\ materialised' = r.materialised
       /\ op' = [name |-> "get_all_stats", total_documents |-> r.total_documents]
  /\ result' = "ok"
  /\ logged' = IF failing # {} THEN "StatsFailed" ELSE "none"
  /\ providerCalls' = 0
  /\ addCalls' = <<>>
  /\ UNCHANGED <<store, latest, zephyrVars, planCalls, now, retrVars, genVars>>

MemoryNext ==
  \/ \E kind \in PagedKinds :
       \E shape \in {<<2, "reversed">>},
          project_key \in ProjectKeys(kind), storeFail \in StoreFailures :
         IndexPaged(kind, shape, project_key, IF storeFail = "none" THEN 0 ELSE 1,
                    storeFail, {})
  \/ \E storeFail \in StoreFailures, failing \in SUBSET (1..embed_calls(1)) :
       IndexTestPlan(1, storeFail, failing)
  \/ \E ctx \in {x \in Contexts : Len(x.linked_stories) <= 1},
        fails \in [1..3 -> {"none", "add"}] :
       IndexStoryContext(ctx, "PLAT", fails)
  \/ \E c \in Collections, fails \in BOOLEAN : GetCollectionStats(c, fails)
  \/ \E failing \in {{}, {JIRA_STORIES_COLLECTION}} : GetAllStats(failing)
  \/ \E c \in Collections, metadata_filter \in {NoFilter, [project_key |-> "PLAT"]},
        failure \in QueryFailures :
       RetrieveSimilar(c, build_query(ValidStory), TopK(c), metadata_filter, failure)
  \/ \E c \in Collections, fails \in BOOLEAN : ClearCollection(c, fails)
  \/ \E failing \in {{}, {JIRA_STORIES_COLLECTION}} : ClearAllCollections(failing)

MemorySpec == Init /\ [][MemoryNext]_vars

\* C26: documents are removed only by an explicit clear.  A step that takes
\* an id out of a collection is a clear_collection of that collection or a
\* clear_all_collections; no indexing (add_documents), statistics or
\* retrieval step removes a stored id.
C26_RemovedOnlyByClear ==
  [][\A c \in Collections :
       ~(IdsOf(store[c]) \subseteq IdsOf(store'[c])) =>
         \/ ClearCollection(c, FALSE)
         \/ \E failing \in SUBSET (Collections \ {c}) : ClearAllCollections(failing)]_vars

\* Documents of two collections are stored and the last operation, a
\* retrieval that returned some of them, a statistics call or a failed
\* indexing, has left them there.
C26_Witness ==
  /\ store[JIRA_STORIES_COLLECTION] # {}
  /\ store[CONFLUENCE_DOCS_COLLECTION] # {}
  /\ \/ op.name = "retrieve_similar" /\ op.out # <<>>
     \/ op.name = "get_all_stats" /\ op.total_documents >= 2
     \/ op.name = "index_story_context" /\ logged = "StepFailed"

\* C27: no cancellation.  Every index_test_plan task that generate_test_plan
\* starts eventually runs to completion (the plan is stored) or to failure
\* (the failure is logged); it is never cancelled or dropped.
C27_TaskRunsToTheEnd ==
  (task = "scheduled") ~> (task \in {"done", "done_logged"})

\* C28: a paged indexing call stops at the first failing page.  When
\* add_documents fails on page k, the add_documents calls made are those of
\* pages 1..k of the input in order (none for a later page), the records of
\* the pages before k are stored, and what the call has added to the
\* collection is exactly those pages: a prefix of the input's pages.
C28_StopsAtFirstFailingPage ==
  [][(op'.name \in PagedKinds /\ logged' # "none") =>
       LET k == Len(addCalls')
           c == CollectionOf(op'.name)
           before == Range(Flatten(SubSeq(addCalls', 1, k - 1)))
       IN /\ k >= 1
          /\ Flatten(addCalls')
               = SubSeq(InputIds', 1, Min(k * BATCH_SIZE, Len(op'.records)))
          /\ before \subseteq IdsOf(store'[c])
          /\ IdsOf(store'[c]) = IdsOf(store[c]) \cup before]_vars

\* The first of two pages failed: one add_documents call was made, nothing
\* was stored.
C28_Witness ==
  /\ op.name \in PagedKinds
  /\ logged # "none"
  /\ Len(op.records) > BATCH_SIZE
  /\ Len(addCalls) = 1
  /\ store[CollectionOf(op.name)] = {}

(***************************************************************************)
(* zephyr_integration.py: ZephyrIntegration.get_test_cases_for_project     *)
(***************************************************************************)
\* 30 * 60 seconds, scaled to the ticks of the model's clock.
CACHE_TTL == 2

\* f"{project_key}_{max_results}_{search_query or 'all'}"
cache_key(project_key, max_results, search_query) ==
  <<project_key, max_results, IF search_query = None THEN "all" ELSE search_query>>

\* What the catalog service returns for the project at tick t.
fetched(project_key, t) == <<"tests", project_key, t>>

\* age = time.time() - ZephyrIntegration._cache_timestamp: the one timestamp
\* of the class, whatever the key.
cache_age(t, timestamp) == t - timestamp

\* `if use_cache and cache_key in _test_cache: if _cache_timestamp: if age <
\* CACHE_TTL`: the cached list is returned.
cache_hit(cache, timestamp, key, use_cache, t) ==
  /\ use_cache
  /\ key \in DOMAIN cache
  /\ timestamp # NoTimestamp
  /\ cache_age(t, timestamp) < CACHE_TTL

\* get_test_cases_for_project.  A cache hit returns the cached list; a search
\* query goes to the search API and is not cached; otherwise the catalog is
\* fetched (fetchOk: no HTTP error) and the list is cached under the key with
\* the class's timestamp set to the clock.
GetTestCasesForProject(project_key, max_results, search_query, use_cache, fetchOk) ==
  LET key == cache_key(project_key, max_results, search_query)
      hit == cache_hit(test_cache, cache_timestamp, key, use_cache, now)
      stores == ~hit /\ search_query = None /\ fetchOk
  IN /\ op' = [name |-> "get_test_cases_for_project", key |-> key,
               use_cache |-> use_cache, cached |-> hit,
               out |-> IF hit THEN test_cache[key]
                       ELSE IF fetchOk THEN fetched(project_key, now)
                       ELSE <<>>]
     /\ result' = IF hit \/ fetchOk THEN "ok" ELSE "HTTPError"
     /\ test_cache' = IF stores
                      THEN [k \in DOMAIN test_cache \cup {key} |->
                              IF k = key THEN fetched(project_key, now) ELSE test_cache[k]]
                      ELSE test_cache
     /\ cache_timestamp' = IF stores THEN now ELSE cache_timestamp
     /\ cached_at' = IF stores
                     THEN [k \in DOMAIN cached_at \cup {key} |->
                             IF k = key THEN now ELSE cached_at[k]]
                     ELSE cached_at
     /\ logged' = "none"
     /\ providerCalls' = 0
     /\ addCalls' = <<>>
     /\ UNCHANGED <<store, materialised, latest, planCalls, now, retrVars, genVars>>

MaxResults == 2

CacheNext ==
  \/ \E project_key \in {"PLAT", "OTHER"}, max_results \in {MaxResults},
        search_query \in {None, "login"}, use_cache \in BOOLEAN, fetchOk \in BOOLEAN :
       GetTestCasesForProject(project_key, max_results, search_query, use_cache, fetchOk)
  \/ Tick

CacheSpec == Init /\ [][CacheNext]_vars

\* C29: the catalog-fetch cache honours its TTL per entry.  A call with
\* use_cache returns the cached list of its cache key only if that list was
\* stored under the key less than CACHE_TTL earlier, whatever other keys were
\* fetched in between.
C29_CacheHonoursTtlPerEntry ==
  (op.name = "get_test_cases_for_project" /\ op.cached) =>
    now - cached_at[op.key] < CACHE_TTL

(***************************************************************************)
(* retrieve_for_story racing with clears and writes of the same store.     *)
(***************************************************************************)
\* The collections the racing operations clear and write.
RaceCollections == {TEST_PLANS_COLLECTION, JIRA_STORIES_COLLECTION}

RaceInit ==
  /\ store = [c \in Collections |->
                IF c \in RaceCollections THEN {SeedDoc(c, 1), SeedDoc(c, 2)} ELSE {}]
  /\ materialised = RaceCollections
  /\ Quiet

\* The steps of one retrieve_for_story call, and between any two of them a
\* clear_collection, a clear_all_collections or an add_documents of another
\* caller.
RaceNext ==
  \/ \E project_key \in {"PLAT", "OTHER"} : StartRetrieve(ValidStory, project_key)
  \/ \E c \in Collections, fails \in BOOLEAN : LookupStats(c, fails)
  \/ \E c \in Collections, failure \in {"none", "query"} : LookupQuery(c, failure)
  \/ Gather
  \/ \E c \in RaceCollections : ClearCollection(c, FALSE)
  \/ ClearAllCollections({})
  \/ \E c \in RaceCollections : AddSeed(c)

RaceSpec == RaceInit /\ [][RaceNext]_vars

\* C30: a retrieve_for_story that interleaves with clears and writes of the
\* same store never raises (neither the call nor, at the fan-in, any of its
\* lookups), every entry a lookup returns is a document that is stored in its
\* collection when the lookup's query runs, and the context returned holds
\* exactly the lists of the lookups.
C30_RacingRetrieveIsSafe ==
  /\ [](rpc # "raised" /\ (rpc = "gather" => \A c \in Collections : ~lookups[c].raised))
  /\ [][/\ \A c \in Collections :
             (rpc = "gather" /\ lookups'[c].out # lookups[c].out) =>
               \A i \in DOMAIN lookups'[c].out :
                 \E d \in store[c] :
                   /\ d.id = lookups'[c].out[i].id
                   /\ d.document = lookups'[c].out[i].document
                   /\ d.metadata = lookups'[c].out[i].metadata
        /\ (rpc = "gather" /\ rpc' = "returned") =>
             \A c \in Collections : context'[c] = lookups[c].out]_vars

\* The collection was cleared between the stats check, which counted
\* documents of the story's project, and the query, which ran without
\* failure and found nothing; the call returned.
C30_Witness ==
  /\ rpc = "returned"
  /\ rcall.metadata_filter.project_key = "PLAT"
  /\ \E c \in RaceCollections :
       /\ lookups[c].count > 0
       /\ lookups[c].queried
       /\ lookups[c].failure = "none"
       /\ context[c] = <<>>

====
